---- MODULE Spec2Model ----
(***************************************************************************)
(* Report-generation job orchestration of reporting-ui: the BullMQ queue   *)
(* "report-generation" (lib/report-queue.ts), the worker process           *)
(* (worker/index.ts: processJob, startWorker), the handler                 *)
(* (worker/report-generator.ts: generateReport, retryWithBackoff) and the  *)
(* status projections (lib/job-queue.ts, app/api/jobs).                    *)
(*                                                                         *)
(* Time is counted in milliseconds; a backoff sleep is a timer that the    *)
(* Tick action runs down.  Error messages are sequences of text fragments, *)
(* so that String.includes is a search for a fragment.                     *)
(***************************************************************************)
EXTENDS Integers, Sequences, FiniteSets, TLC

\* ---------------------------------------------------------------- bounds
MaxJobs == 1
NumWorkers == 2
MaxCrashes == 1
TickMs == 4000
MaxTotal == 13
MaxPending == 2
MaxDays == 7
ListJobs == 2
MaxLimit == 2
MaxOffset == 1
FileJobs == 2
PostJobs == 2
CapJobs == 3
LimitJobs == 12
\* Redis clients, and Queue or QueueEvents instances, made in one process
MaxClients == 3
MaxInstances == 3

\* ------------------------------------------------------ program constants
\* retryWithBackoff(fn, 3, 2000, 15000) as called by generateReport
MaxRetries == 3
InitialDelay == 2000
MaxDelay == 15000
\* every updateProgress call of generateReport passes total = 10
ProgressTotal == 10
\* the three output formats rendered in step 8
NumFormats == 3
\* defaultJobOptions of the queue
QueueAttempts == 3
\* Worker options
Concurrency == 2
\* defaultJobOptions.removeOnFail.age and removeOnComplete.age, in seconds
RemoveOnFailAge == 604800
RemoveOnCompleteAge == 86400
DaySeconds == 86400
\* POST /api/reports/generate: the lengths a trimmed report name may have
MinName == 3
MaxName == 100
\* sanitizeFilename: substring(0, 50)
MaxFilename == 50
LimiterMax == 10
LimiterDuration == 60000
MaxStalledCount == 1

\* the jobs that are submitted while the system runs, and all job ids: the
\* ids above MaxJobs are of jobs that wait in the queue from the start
Jobs == 1..MaxJobs
AllJobs == 1..LimitJobs
Workers == 1..NumWorkers
NoWorker == 0

\* ------------------------------------------------------------- messages
NoMsg == << >>

\* String.prototype.includes, on a message of text fragments
Includes(msg, s) == \E i \in DOMAIN msg : msg[i] = s

ErrPluginNotFound == <<"Failed to load plugin">>
ErrInterface == <<"does not implement required interface">>
ErrApiKey == <<"API key not configured for provider">>
ErrNoSpecs == <<"No specifications found for plugin">>
ErrEmptyContent == <<"Report generation returned empty content">>
ErrRender == <<"render failed">>
ErrProcessData == <<"processAPIData failed">>
ErrStalled == <<"job stalled more than allowable limit">>

\* what plugin.fetchFromAPI may throw
FetchErrors ==
    { <<"connect ", "ETIMEDOUT">>,
      <<"read ", "ECONNRESET">>,
      <<"getaddrinfo ", "ENOTFOUND">>,
      <<"Network error", ": connection refused">>,
      <<"API ", "rate limit", " exceeded">>,
      <<"Request failed with status code 400">> }

\* what reportEngine.generateReport (the LLM call) may throw: the last is an
\* Error made without a message
LLMErrors ==
    { <<"read ", "ECONNRESET">>, <<"LLM provider rejected the prompt">>, <<"">> }

\* a test for the four error codes and phrases other than "Network error"
IsNetworkErrorNoGeneric(msg) ==
    \/ Includes(msg, "ETIMEDOUT")
    \/ Includes(msg, "ECONNRESET")
    \/ Includes(msg, "ENOTFOUND")
    \/ Includes(msg, "rate limit")

\* the isNetworkError test of retryWithBackoff
IsNetworkError(msg) ==
    \/ Includes(msg, "ETIMEDOUT")
    \/ Includes(msg, "ECONNRESET")
    \/ Includes(msg, "ENOTFOUND")
    \/ Includes(msg, "Network error")
    \/ Includes(msg, "rate limit")

\* the message generateReport rethrows from its fetch/process catch block
DataFetchingFailed(msg) ==
    <<"Data fetching failed: ">> \o msg \o
    <<". Check if NCBI PubMed API is accessible and ", "rate limit",
      "s are not exceeded.">>

\* ------------------------------------------------------------ arithmetic
RECURSIVE Pow2(_)
Pow2(n) == IF n = 0 THEN 1 ELSE 2 * Pow2(n - 1)

Min(a, b) == IF a <= b THEN a ELSE b
Max(a, b) == IF a >= b THEN a ELSE b

\* a delay whose exponent counts the failed attempts from one
BackoffDelayFromOne(attempt) == Min(InitialDelay * Pow2(attempt + 1), MaxDelay)

\* delay = Math.min(initialDelay * Math.pow(2, attempt), maxDelay)
BackoffDelay(attempt) == Min(InitialDelay * Pow2(attempt), MaxDelay)

\* ------------------------------------------------------- progress records
\* job.progress is the number 0 until the first updateProgress; afterwards
\* the object {step, current, total, message}.  current is the rational
\* cnum/cden (step 8 writes 8 + (i+1)/3).
InitialProgress == [kind |-> "number", cnum |-> 0, cden |-> 1, total |-> 0]
ProgressObj(n, d, t) == [kind |-> "object", cnum |-> n, cden |-> d, total |-> t]

\* ------------------------------------------------------------- results
NoResult == [kind |-> "none"]
SuccessResult(outs) ==
    [kind |-> "result", success |-> TRUE, outputs |-> outs, error |-> NoMsg]
FailureResult(msg) ==
    [kind |-> "result", success |-> FALSE, outputs |-> {}, error |-> msg]

\* -------------------------------------------------------- API answers
NoReply == [op |-> "none"]
Reply(op, j, code) == [op |-> op, job |-> j, code |-> code]
NoRead == [phase |-> "idle"]
NoCall == [op |-> "none"]
\* the status page: closed, or just mounted with its first poll due
NoPage == [open |-> FALSE, scheduled |-> FALSE, shown |-> "none"]
Mounted == [open |-> TRUE, scheduled |-> TRUE, shown |-> "none"]
\* `null` in a module-level cache; a Queue or QueueEvents instance is its
\* number and the number of the Redis client it was constructed with
NoInstance == [id |-> 0, client |-> 0]
NoReturn == [call |-> "none", client |-> 0, instance |-> NoInstance, since |-> 0]
\* the modules as loaded: `let redisClient = null`, `let reportQueue = null`,
\* `let queueEvents = null`; no client and no instance made yet
NoHandles ==
    [redisClient |-> 0, clients |-> 0, quit |-> {},
     reportQueue |-> NoInstance, queues |-> 0, closedQueues |-> {},
     queueEvents |-> NoInstance, events |-> 0, closedEvents |-> {},
     closing |-> "idle", quitting |-> FALSE,
     sinceQueue |-> 0, sinceEvents |-> 0, ret |-> NoReturn]

\* ------------------------------------------------------ report files
\* Report names are sequences of characters.
Letters == {"q"}
Digits == {"1", "2"}
Lower(c) == IF c = "Q" THEN "q" ELSE c
toLowerCase(name) == [i \in DOMAIN name |-> Lower(name[i])]

RECURSIVE trimStart(_)
trimStart(name) ==
    IF name # << >> /\ Head(name) = " " THEN trimStart(Tail(name)) ELSE name

RECURSIVE trimEnd(_)
trimEnd(name) ==
    IF name # << >> /\ name[Len(name)] = " "
    THEN trimEnd(SubSeq(name, 1, Len(name) - 1)) ELSE name

\* .replace(/[^a-z0-9]+/g, "-")
RECURSIVE dashRuns(_)
dashRuns(name) ==
    IF name = << >> THEN << >>
    ELSE LET rest == dashRuns(Tail(name))
         IN  IF Head(name) \in Letters \cup Digits THEN <<Head(name)>> \o rest
             ELSE IF Tail(name) # << >>
                     /\ Head(Tail(name)) \notin Letters \cup Digits
             THEN rest
             ELSE <<"-">> \o rest

\* .replace(/^-+|-+$/g, "")
RECURSIVE stripStart(_)
stripStart(name) ==
    IF name # << >> /\ Head(name) = "-" THEN stripStart(Tail(name)) ELSE name

RECURSIVE stripEnd(_)
stripEnd(name) ==
    IF name # << >> /\ name[Len(name)] = "-"
    THEN stripEnd(SubSeq(name, 1, Len(name) - 1)) ELSE name

\* sanitizeFilename of the report generator
sanitizeFilename(name) ==
    LET clean == stripEnd(stripStart(dashRuns(trimEnd(trimStart(toLowerCase(name))))))
    IN  SubSeq(clean, 1, Min(Len(clean), MaxFilename))

\* what a submitted job may ask for
PluginIds == {"pubmed", "patents"}
ReportNames == { <<"Q", "1">>, <<" ", "q", "1", "!">>, <<"q", "!", " ", "2">> }
DefaultData == [pluginId |-> "pubmed", reportName |-> <<"Q", "1">>]

NoFiles == [on |-> FALSE, files |-> {}]
EmptyDisk == [on |-> TRUE, files |-> {}]

\* ------------------------------------------------------- rate limiter
\* The limiter key holds the number of jobs taken since it was created and
\* expires LimiterDuration after its creation.  Where the key is not followed
\* (on = FALSE) no claim is held back.
LimiterOff == [on |-> FALSE, count |-> 0, ttl |-> 0]
LimiterIdle == [on |-> TRUE, count |-> 0, ttl |-> 0]
NoProbe == [phase |-> "off", age |-> 0, count |-> 0]

VARIABLES
    jstate,       \* BullMQ state of each job; "none" = no record in the store
                  \* yet, "removed" = the record was deleted
    attemptsMade, \* job.attemptsMade
    stalledCount, \* times the job was recovered from a stall
    progress,     \* job.progress
    returnvalue,  \* job.returnvalue
    failedReason, \* job.failedReason
    lock,         \* the worker holding the job's lock, or NoWorker
    alive,        \* which worker processes run
    processing,   \* per worker: the jobs whose processJob it is running
    crashes,      \* worker crashes so far
    hpc,          \* position of the job's handler run inside generateReport
    attempt,      \* retryWithBackoff's loop variable
    lastError,    \* retryWithBackoff's lastError
    delay,        \* the delay retryWithBackoff computed last
    timer,        \* what is left of the running setTimeout
    fmt,          \* index i of the rendering loop
    outputs,      \* generateReport's outputs so far
    result,       \* the ReportJobResult generateReport returned to processJob
    asyncWrites,  \* whether this behaviour follows progress writes in flight
    pendingWrites,\* the job.updateProgress calls issued and not yet applied
    limiter,      \* the queue's rate limiter key: its count and time to live
    probe,        \* history: the claims made in the 60000 ms after one claim
    finishedDays, \* whole days gone by since job.finishedOn
    redisUp,      \* whether the Redis server can be reached
    held,         \* the API call whose command waits in the client's
                  \* offline queue, or NoCall
    conn,         \* the module-level caches of lib/redis.ts and
                  \* lib/report-queue.ts, and the clients and instances made
    page,         \* the status page of job 1: whether a poll is due and
                  \* the status it shows
    jobData,      \* job.data: the plugin and the report name asked for
    fs,           \* the files under REPORTS_DIR, each with the job that
                  \* wrote it last (followed where fs.on)
    reply,        \* the last answer an API operation gave its caller
    rd,           \* a status read between its two fetches
    countFetches, \* whether this behaviour keeps the history variable below
    fetchTotal    \* history: invocations of plugin.fetchFromAPI for the job,
                  \* over all its handler runs, until the job is settled

storeVars == <<jstate, attemptsMade, stalledCount, progress, returnvalue,
               failedReason, lock>>
workerVars == <<alive, processing, crashes>>
runVars == <<hpc, attempt, lastError, delay, timer, fmt, outputs, result>>
histVars == <<countFetches, fetchTotal>>
wireVars == <<asyncWrites, pendingWrites>>
apiVars == <<reply, rd>>
limVars == <<limiter, probe>>
ageVars == <<finishedDays>>
netVars == <<redisUp, held>>
fsVars == <<jobData, fs>>
pageVars == <<page>>
connVars == <<conn>>
vars == <<jstate, attemptsMade, stalledCount, progress, returnvalue,
          failedReason, lock, alive, processing, crashes, hpc, attempt,
          lastError, delay, timer, fmt, outputs, result, countFetches,
          fetchTotal, asyncWrites, pendingWrites, reply, rd, limiter, probe,
          finishedDays, redisUp, held, jobData, fs, page, conn>>

\* the state in which the jobs of `queued` wait and no worker runs any.  The
\* jobs of stalledOnce were taken by a worker that died before their handler
\* wrote anything, and were put back; those of stalledOut went through this
\* twice and have just failed for it.
InitFrom(queued, stalledOnce, stalledOut) ==
    /\ jstate = [j \in AllJobs |-> IF j \in queued \cup stalledOnce THEN "waiting"
                                   ELSE IF j \in stalledOut THEN "failed"
                                   ELSE "none"]
    /\ attemptsMade = [j \in AllJobs |-> 0]
    /\ stalledCount = [j \in AllJobs |->
                          IF j \in stalledOnce \cup stalledOut
                          THEN MaxStalledCount ELSE 0]
    /\ progress = [j \in AllJobs |-> InitialProgress]
    /\ returnvalue = [j \in AllJobs |-> NoResult]
    /\ failedReason = [j \in AllJobs |->
                          IF j \in stalledOut THEN ErrStalled ELSE NoMsg]
    /\ lock = [j \in AllJobs |-> NoWorker]
    /\ alive = [w \in Workers |-> TRUE]
    /\ processing = [w \in Workers |-> {}]
    /\ crashes = 0
    /\ hpc = [j \in AllJobs |-> "idle"]
    /\ attempt = [j \in AllJobs |-> 0]
    /\ lastError = [j \in AllJobs |-> NoMsg]
    /\ delay = [j \in AllJobs |-> 0]
    /\ timer = [j \in AllJobs |-> 0]
    /\ fmt = [j \in AllJobs |-> 0]
    /\ outputs = [j \in AllJobs |-> {}]
    /\ result = [j \in AllJobs |-> NoResult]
    /\ fetchTotal = [j \in AllJobs |-> 0]
    /\ pendingWrites = [j \in AllJobs |-> << >>]
    /\ reply = NoReply
    /\ rd = NoRead
    /\ probe = NoProbe
    /\ finishedDays = [j \in AllJobs |-> 0]
    /\ redisUp = TRUE
    /\ held = NoCall
    /\ conn = NoHandles

\* the state in which the jobs of `queued` have been submitted and no
\* worker has taken any
InitWith(queued) == InitFrom(queued, {}, {})

\* the files are not followed; every job asks for the same report
NoDisk == fs = NoFiles /\ jobData = [j \in AllJobs |-> DefaultData]

\* nobody looks at the status page
NoViewer == page = NoPage

InitState == InitWith({}) /\ limiter = LimiterOff /\ NoDisk /\ NoViewer

Init == InitState /\ countFetches = FALSE /\ asyncWrites = FALSE

\* ------------------------------------------------------------- helpers
\* a caller's command is carried out: the server is reached and no earlier
\* command of the caller waits
StoreReady == redisUp /\ held = NoCall

\* queue.getJob(jobId) finds no record
Absent(j) == jstate[j] \in {"none", "removed"}

Formats == <<"html", "md", "pdf">>

\* the worker process that runs job j's handler, if any
Runs(w, j) == alive[w] /\ j \in processing[w]
HandlerAt(j, pc) == hpc[j] = pc /\ \E w \in Workers : Runs(w, j)

\* job.updateProgress(progress) is called and not awaited: the write is
\* handed to the worker's Redis connection.  Where the writes in flight are
\* not followed, it is applied at once.
issueWrite(j, rec) ==
    /\ IF asyncWrites
       THEN /\ Len(pendingWrites[j]) < MaxPending
            /\ pendingWrites' = [pendingWrites EXCEPT ![j] = Append(@, rec)]
            /\ UNCHANGED progress
       ELSE /\ progress' = [progress EXCEPT ![j] = rec]
            /\ UNCHANGED pendingWrites
    /\ UNCHANGED asyncWrites

\* a progress write that stores the percentage as current
updateProgressPercent(j, n, d) ==
    issueWrite(j, ProgressObj(n * 10, d, ProgressTotal))

\* generateReport's updateProgress -> processJob's onProgress
updateProgress(j, n, d) ==
    issueWrite(j, ProgressObj(n, d, ProgressTotal))

\* the local state of the handler runs of the jobs in S is dropped
ClearRuns(S) ==
    /\ hpc' = [j \in AllJobs |-> IF j \in S THEN "idle" ELSE hpc[j]]
    /\ attempt' = [j \in AllJobs |-> IF j \in S THEN 0 ELSE attempt[j]]
    /\ lastError' = [j \in AllJobs |-> IF j \in S THEN NoMsg ELSE lastError[j]]
    /\ delay' = [j \in AllJobs |-> IF j \in S THEN 0 ELSE delay[j]]
    /\ timer' = [j \in AllJobs |-> IF j \in S THEN 0 ELSE timer[j]]
    /\ fmt' = [j \in AllJobs |-> IF j \in S THEN 0 ELSE fmt[j]]
    /\ outputs' = [j \in AllJobs |-> IF j \in S THEN {} ELSE outputs[j]]
    /\ result' = [j \in AllJobs |-> IF j \in S THEN NoResult ELSE result[j]]

\* generateReport's catch block: the error becomes a result with success = false
ReturnFailure(j, msg) ==
    /\ result' = [result EXCEPT ![j] = FailureResult(msg)]
    /\ hpc' = [hpc EXCEPT ![j] = "returned"]

Goto(j, pc) ==
    /\ hpc' = [hpc EXCEPT ![j] = pc]
    /\ UNCHANGED result

\* --------------------------------------------------------------- queue
\* jobQueue.createJob -> addReportJob -> queue.add with a fresh job id
Submit(j) ==
    /\ StoreReady
    /\ UNCHANGED limVars
    /\ UNCHANGED pageVars
    /\ UNCHANGED connVars
    /\ UNCHANGED fsVars
    /\ UNCHANGED netVars
    /\ UNCHANGED ageVars
    /\ UNCHANGED apiVars
    /\ UNCHANGED wireVars
    /\ jstate[j] = "none"
    /\ \A i \in Jobs : i < j => jstate[i] # "none"
    /\ jstate' = [jstate EXCEPT ![j] = "waiting"]
    /\ UNCHANGED <<attemptsMade, stalledCount, progress, returnvalue,
                   failedReason, lock>>
    /\ UNCHANGED workerVars
    /\ UNCHANGED runVars
    /\ UNCHANGED histVars

\* the limiter key after ms milliseconds: it is gone once its time is up
LimiterAfter(ms) ==
    IF limiter.ttl > ms
    THEN [limiter EXCEPT !.ttl = @ - ms]
    ELSE [limiter EXCEPT !.ttl = 0, !.count = 0]

\* getRateLimitTTL: the queue is rate limited while the key holds max or more
RateLimited == limiter.on /\ limiter.count >= LimiterMax /\ limiter.ttl > 0

\* a job is taken: INCR on the key, which gets its time to live when created
LimiterTaken ==
    IF ~limiter.on THEN limiter
    ELSE IF limiter.ttl = 0
         THEN [limiter EXCEPT !.count = 1, !.ttl = LimiterDuration]
         ELSE [limiter EXCEPT !.count = @ + 1]

\* history: the window that opened with a claim, ms milliseconds later
ProbeAfter(ms) ==
    IF probe.phase # "on" THEN probe
    ELSE IF probe.age + ms >= LimiterDuration
         THEN [phase |-> "done", age |-> 0, count |-> 0]
         ELSE [probe EXCEPT !.age = @ + ms]

\* history: a claim opens the window (one claim of the behaviour does), or
\* is counted in the open one
ProbeTaken ==
    IF ~limiter.on THEN {probe}
    ELSE IF probe.phase = "off"
         THEN {probe, [phase |-> "on", age |-> 0, count |-> 1]}
         ELSE IF probe.phase = "on"
              THEN {[probe EXCEPT !.count = @ + 1]}
              ELSE {probe}

\* a claim that does not look at the lock: active jobs are taken as well
ClaimableAlsoActive(j) == jstate[j] \in {"waiting", "active"}

\* a job a worker may take: the head of the wait list
Claimable(j) == jstate[j] = "waiting"

\* a worker that takes jobs without counting the ones it runs
HasFreeSlotAlways(w) == TRUE

\* the Worker fetches a next job only while fewer than `concurrency`
\* handlers of its own are running
HasFreeSlot(w) == Cardinality(processing[w]) < Concurrency

\* the Worker takes the next job (wait -> active, lock taken) and calls processJob
Claim(w, j) ==
    /\ redisUp
    /\ UNCHANGED apiVars
    /\ UNCHANGED wireVars
    /\ alive[w]
    /\ HasFreeSlot(w)
    /\ Claimable(j)
    /\ ~RateLimited
    /\ limiter' = LimiterTaken
    /\ UNCHANGED pageVars
    /\ UNCHANGED connVars
    /\ UNCHANGED fsVars
    /\ UNCHANGED netVars
    /\ UNCHANGED ageVars
    /\ probe' \in ProbeTaken
    /\ jstate' = [jstate EXCEPT ![j] = "active"]
    /\ lock' = [lock EXCEPT ![j] = w]
    /\ processing' = [processing EXCEPT ![w] = @ \cup {j}]
    /\ hpc' = [hpc EXCEPT ![j] = "start"]
    /\ UNCHANGED <<attemptsMade, stalledCount, progress, returnvalue,
                   failedReason, alive, crashes, attempt, lastError, delay,
                   timer, fmt, outputs, result, countFetches, fetchTotal>>

\* ------------------------------------------------- generateReport, by step
\* what a step that only writes progress and moves on leaves alone
StepFrame ==
    UNCHANGED <<jstate, attemptsMade, stalledCount, returnvalue, failedReason,
                lock, alive, processing, crashes, attempt, lastError, delay,
                timer, fmt, outputs, countFetches, fetchTotal, reply, rd,
                limiter, probe, finishedDays, redisUp, held, jobData, fs,
                page, conn>>

\* Step 1: updateProgress(1, 10); loadPlugin; verifyPluginInterface
LoadPlugin(j) ==
    /\ HandlerAt(j, "start")
    /\ updateProgress(j, 1, 1)
    /\ \/ Goto(j, "fetchData")
       \/ \E e \in {ErrPluginNotFound, ErrInterface} : ReturnFailure(j, e)
    /\ StepFrame

\* Step 2: updateProgress(2, 10); retryWithBackoff starts with attempt = 0
BeginFetch(j) ==
    /\ UNCHANGED limVars
    /\ UNCHANGED pageVars
    /\ UNCHANGED connVars
    /\ UNCHANGED fsVars
    /\ UNCHANGED netVars
    /\ UNCHANGED ageVars
    /\ UNCHANGED apiVars
    /\ HandlerAt(j, "fetchData")
    /\ updateProgress(j, 2, 1)
    /\ attempt' = [attempt EXCEPT ![j] = 0]
    /\ Goto(j, "fetch")
    /\ UNCHANGED <<jstate, attemptsMade, stalledCount, returnvalue,
                   failedReason, lock, alive, processing, crashes, lastError,
                   delay, timer, fmt, outputs, countFetches, fetchTotal>>

\* history: one more invocation of plugin.fetchFromAPI for job j
CountFetch(j) ==
    /\ fetchTotal' = [fetchTotal EXCEPT ![j] = IF countFetches THEN @ + 1 ELSE @]
    /\ UNCHANGED countFetches

\* `attempt === maxRetries`: no retry is left after the attempt that failed
Exhausted(a) == a = MaxRetries

\* one iteration of retryWithBackoff's loop: fn() returns, and so does
\* retryWithBackoff (its locals are gone)
FetchOk(j) ==
    /\ UNCHANGED limVars
    /\ UNCHANGED pageVars
    /\ UNCHANGED connVars
    /\ UNCHANGED fsVars
    /\ UNCHANGED netVars
    /\ UNCHANGED ageVars
    /\ UNCHANGED apiVars
    /\ UNCHANGED wireVars
    /\ HandlerAt(j, "fetch")
    /\ CountFetch(j)
    /\ attempt' = [attempt EXCEPT ![j] = 0]
    /\ Goto(j, "processData")
    /\ UNCHANGED <<jstate, attemptsMade, stalledCount, progress, returnvalue,
                   failedReason, lock, alive, processing, crashes, lastError,
                   delay, timer, fmt, outputs>>

\* one iteration of retryWithBackoff's loop: fn() throws e
FetchThrows(j, e) ==
    /\ UNCHANGED limVars
    /\ UNCHANGED pageVars
    /\ UNCHANGED connVars
    /\ UNCHANGED fsVars
    /\ UNCHANGED netVars
    /\ UNCHANGED ageVars
    /\ UNCHANGED apiVars
    /\ UNCHANGED wireVars
    /\ HandlerAt(j, "fetch")
    /\ CountFetch(j)
    /\ IF ~IsNetworkError(e) \/ Exhausted(attempt[j])
       THEN \* throw lastError; generateReport wraps it and returns a failure
            /\ ReturnFailure(j, DataFetchingFailed(e))
            /\ attempt' = [attempt EXCEPT ![j] = 0]
            /\ UNCHANGED <<lastError, delay, timer>>
       ELSE \* await new Promise(resolve => setTimeout(resolve, delay))
            /\ lastError' = [lastError EXCEPT ![j] = e]
            /\ delay' = [delay EXCEPT ![j] = BackoffDelay(attempt[j])]
            /\ timer' = [timer EXCEPT ![j] = BackoffDelay(attempt[j])]
            /\ Goto(j, "sleep")
            /\ UNCHANGED attempt
    /\ UNCHANGED <<jstate, attemptsMade, stalledCount, progress, returnvalue,
                   failedReason, lock, alive, processing, crashes, fmt,
                   outputs>>

\* TickMs milliseconds pass for every running timer
Tick ==
    /\ UNCHANGED apiVars
    /\ UNCHANGED wireVars
    /\ \/ \E j \in AllJobs : timer[j] > 0
       \/ limiter.ttl > 0
       \/ probe.phase = "on"
    /\ limiter' = LimiterAfter(TickMs)
    /\ UNCHANGED pageVars
    /\ UNCHANGED connVars
    /\ UNCHANGED fsVars
    /\ UNCHANGED netVars
    /\ UNCHANGED ageVars
    /\ probe' = ProbeAfter(TickMs)
    /\ timer' = [j \in AllJobs |-> Max(timer[j] - TickMs, 0)]
    /\ UNCHANGED <<jstate, attemptsMade, stalledCount, progress, returnvalue,
                   failedReason, lock, alive, processing, crashes, hpc,
                   attempt, lastError, delay, fmt, outputs, result,
                   countFetches, fetchTotal>>

\* the setTimeout fires; the for loop goes to its next iteration
WakeUp(j) ==
    /\ UNCHANGED limVars
    /\ UNCHANGED pageVars
    /\ UNCHANGED connVars
    /\ UNCHANGED fsVars
    /\ UNCHANGED netVars
    /\ UNCHANGED ageVars
    /\ UNCHANGED apiVars
    /\ UNCHANGED wireVars
    /\ HandlerAt(j, "sleep")
    /\ timer[j] = 0
    /\ attempt' = [attempt EXCEPT ![j] = @ + 1]
    /\ lastError' = [lastError EXCEPT ![j] = NoMsg]
    /\ delay' = [delay EXCEPT ![j] = 0]
    /\ Goto(j, "fetch")
    /\ UNCHANGED <<jstate, attemptsMade, stalledCount, progress, returnvalue,
                   failedReason, lock, alive, processing, crashes, timer, fmt,
                   outputs, countFetches, fetchTotal>>

\* Step 2b: plugin.processAPIData(apiResponse), inside the same try block
ProcessData(j) ==
    /\ HandlerAt(j, "processData")
    /\ \/ Goto(j, "llmConfig")
       \/ ReturnFailure(j, DataFetchingFailed(ErrProcessData))
    /\ UNCHANGED <<progress, asyncWrites, pendingWrites>>
    /\ StepFrame

\* Step 3: updateProgress(3, 10); getLLMConfig
LLMConfig(j) ==
    /\ HandlerAt(j, "llmConfig")
    /\ updateProgress(j, 3, 1)
    /\ \/ Goto(j, "initEngine")
       \/ ReturnFailure(j, ErrApiKey)
    /\ StepFrame

\* Step 4: updateProgress(4, 10); the report engine is built
InitEngine(j) ==
    /\ HandlerAt(j, "initEngine")
    /\ updateProgress(j, 4, 1)
    /\ Goto(j, "loadSpecs")
    /\ StepFrame

\* Step 5: updateProgress(5, 10); plugin.getSpecifications
LoadSpecs(j) ==
    /\ HandlerAt(j, "loadSpecs")
    /\ updateProgress(j, 5, 1)
    /\ \/ Goto(j, "generate")
       \/ ReturnFailure(j, ErrNoSpecs)
    /\ StepFrame

\* Step 6: updateProgress(6, 10); reportEngine.generateReport (not retried)
Generate(j) ==
    /\ HandlerAt(j, "generate")
    /\ updateProgress(j, 6, 1)
    /\ \/ Goto(j, "prepare")
       \/ \E e \in LLMErrors \cup {ErrEmptyContent} : ReturnFailure(j, e)
    /\ StepFrame

\* Step 7: updateProgress(7, 10); mkdir; outputs = {}
PrepareOutput(j) ==
    /\ UNCHANGED limVars
    /\ UNCHANGED pageVars
    /\ UNCHANGED connVars
    /\ UNCHANGED fsVars
    /\ UNCHANGED netVars
    /\ UNCHANGED ageVars
    /\ UNCHANGED apiVars
    /\ HandlerAt(j, "prepare")
    /\ updateProgress(j, 7, 1)
    /\ fmt' = [fmt EXCEPT ![j] = 0]
    /\ outputs' = [outputs EXCEPT ![j] = {}]
    /\ Goto(j, "render")
    /\ UNCHANGED <<jstate, attemptsMade, stalledCount, returnvalue,
                   failedReason, lock, alive, processing, crashes, attempt,
                   lastError, delay, timer, countFetches, fetchTotal>>

\* path.join(reportDir, `${sanitizedName}.${format}`): the timestamp taken
\* beside sanitizedName is not part of it
filepath(j, format) ==
    <<jobData[j].pluginId, sanitizeFilename(jobData[j].reportName), format>>

\* fs.writeFile(filepath, ...) by job j: the file is created or overwritten
writeFile(path, j) ==
    IF fs.on
    THEN [fs EXCEPT !.files = {f \in @ : f.path # path}
                                 \cup {[path |-> path, by |-> j]}]
    ELSE fs

\* Step 8, iteration i = fmt[j]: updateProgress(8 + (i+1)/3, 10); render and
\* write the file.  A failing PDF is skipped; a failing HTML or MD throws.
Render(j, ok) ==
    /\ UNCHANGED limVars
    /\ UNCHANGED pageVars
    /\ UNCHANGED connVars
    /\ UNCHANGED jobData
    /\ UNCHANGED netVars
    /\ UNCHANGED ageVars
    /\ UNCHANGED apiVars
    /\ HandlerAt(j, "render")
    /\ updateProgress(j, 8 * NumFormats + fmt[j] + 1, NumFormats)
    /\ LET format == Formats[fmt[j] + 1]
           next == IF fmt[j] + 1 = NumFormats THEN "complete" ELSE "render"
       IN  IF ok
           THEN /\ fs' = writeFile(filepath(j, format), j)
                /\ outputs' = [outputs EXCEPT ![j] = @ \cup {format}]
                /\ fmt' = [fmt EXCEPT ![j] = @ + 1]
                /\ Goto(j, next)
           ELSE IF format = "pdf"
           THEN /\ fmt' = [fmt EXCEPT ![j] = @ + 1]
                /\ Goto(j, next)
                /\ UNCHANGED <<outputs, fs>>
           ELSE /\ ReturnFailure(j, ErrRender)
                /\ UNCHANGED <<fmt, outputs, fs>>
    /\ UNCHANGED <<jstate, attemptsMade, stalledCount, returnvalue,
                   failedReason, lock, alive, processing, crashes, attempt,
                   lastError, delay, timer, countFetches, fetchTotal>>

\* Step 9: updateProgress(10, 10); return {success: true, outputs, ...}
Complete(j) ==
    /\ HandlerAt(j, "complete")
    /\ updateProgress(j, ProgressTotal, 1)
    /\ result' = [result EXCEPT ![j] = SuccessResult(outputs[j])]
    /\ hpc' = [hpc EXCEPT ![j] = "returned"]
    /\ StepFrame

\* ------------------------------------------------------------ processJob
\* What processJob hands back to the Worker for the result generateReport
\* gave it: a returned value, or a thrown error.
Returned(res) == [threw |-> FALSE, value |-> res, error |-> NoMsg]

\* a processJob that throws what generateReport reported
processJobRethrows(res) ==
    IF res.success THEN Returned(res)
    ELSE [threw |-> TRUE, value |-> NoResult, error |-> res.error]

\* processJob: `return result` on both branches of `if (result.success)`
processJob(res) == Returned(res)

\* a connection that lets the settling command overtake the writes before it
FlushedAlways(q) == TRUE

\* The Worker's commands go out on one connection, in the order issued: the
\* command that settles a job is applied after the job's progress writes
Flushed(q) == q = << >>

\* the write Redis applies next: the oldest one in flight
Deliverable(q) == {1}

\* Redis applies a progress write: the job's progress field is set
ApplyWrite(j) ==
    /\ redisUp
    /\ UNCHANGED limVars
    /\ UNCHANGED pageVars
    /\ UNCHANGED connVars
    /\ UNCHANGED fsVars
    /\ UNCHANGED netVars
    /\ UNCHANGED ageVars
    /\ UNCHANGED apiVars
    /\ pendingWrites[j] # << >>
    /\ ~Absent(j)
    /\ \E i \in Deliverable(pendingWrites[j]) :
          /\ progress' = [progress EXCEPT ![j] = pendingWrites[j][i]]
          /\ pendingWrites' = [pendingWrites EXCEPT ![j] =
                 SubSeq(@, 1, i - 1) \o SubSeq(@, i + 1, Len(@))]
    /\ UNCHANGED <<jstate, attemptsMade, stalledCount, returnvalue,
                   failedReason, lock, asyncWrites>>
    /\ UNCHANGED workerVars
    /\ UNCHANGED runVars
    /\ UNCHANGED histVars

\* the finished jobs of one kind that are older than the age the queue keeps
\* them for: removed when a next job finishes in the same way
Expired(kind, age) ==
    {i \in AllJobs : jstate[i] = kind /\ finishedDays[i] * DaySeconds >= age}

\* f with the entries of the removed records blank
Without(f, gone, blank) ==
    [i \in AllJobs |-> IF i \in gone THEN blank ELSE f[i]]

\* The Worker settles the job with processJob's outcome: a returned value
\* completes the job; a thrown error fails it, or delays it for another
\* attempt while attemptsMade < attempts.
MoveToFinished(j) ==
    /\ redisUp
    /\ UNCHANGED limVars
    /\ UNCHANGED pageVars
    /\ UNCHANGED connVars
    /\ UNCHANGED fsVars
    /\ UNCHANGED netVars
    /\ UNCHANGED apiVars
    /\ UNCHANGED wireVars
    /\ HandlerAt(j, "returned")
    /\ Flushed(pendingWrites[j])
    /\ LET out == processJob(result[j])
           made == attemptsMade[j] + 1
           gone == IF ~out.threw THEN Expired("completed", RemoveOnCompleteAge)
                   ELSE IF made < QueueAttempts THEN {}
                   ELSE Expired("failed", RemoveOnFailAge)
       IN  /\ attemptsMade' = Without([attemptsMade EXCEPT ![j] = made], gone, 0)
           /\ IF ~out.threw
              THEN /\ jstate' = Without([jstate EXCEPT ![j] = "completed"],
                                        gone, "removed")
                   /\ returnvalue' = Without([returnvalue EXCEPT ![j] = out.value],
                                             gone, NoResult)
                   /\ failedReason' = Without(failedReason, gone, NoMsg)
              ELSE /\ jstate' = Without([jstate EXCEPT ![j] =
                          IF made < QueueAttempts THEN "delayed" ELSE "failed"],
                          gone, "removed")
                   /\ failedReason' = Without([failedReason EXCEPT ![j] = out.error],
                                              gone, NoMsg)
                   /\ returnvalue' = Without(returnvalue, gone, NoResult)
           /\ stalledCount' = Without(stalledCount, gone, 0)
           /\ progress' = Without(progress, gone, InitialProgress)
           /\ finishedDays' = Without([finishedDays EXCEPT ![j] = 0], gone, 0)
    /\ lock' = [lock EXCEPT ![j] = NoWorker]
    /\ processing' = [w \in Workers |-> processing[w] \ {j}]
    /\ ClearRuns({j})
    /\ fetchTotal' = [fetchTotal EXCEPT ![j] = 0]
    /\ UNCHANGED <<alive, crashes, countFetches>>

\* ------------------------------------------------------- crash and stall
\* a worker process dies: its handler runs are gone, its locks stay behind
Crash(w) ==
    /\ UNCHANGED limVars
    /\ UNCHANGED pageVars
    /\ UNCHANGED connVars
    /\ UNCHANGED fsVars
    /\ UNCHANGED netVars
    /\ UNCHANGED ageVars
    /\ UNCHANGED apiVars
    /\ pendingWrites' = [j \in AllJobs |->
                            IF j \in processing[w] THEN << >> ELSE pendingWrites[j]]
    /\ UNCHANGED asyncWrites
    /\ alive[w]
    /\ crashes < MaxCrashes
    /\ \E v \in Workers : v # w /\ alive[v]
    /\ alive' = [alive EXCEPT ![w] = FALSE]
    /\ crashes' = crashes + 1
    /\ processing' = [processing EXCEPT ![w] = {}]
    /\ ClearRuns(processing[w])
    /\ UNCHANGED <<jstate, attemptsMade, stalledCount, progress, returnvalue,
                   failedReason, lock, countFetches, fetchTotal>>

\* a stall test that no job passes: an active job always has a lock holder
StalledNever(j) == jstate[j] = "active" /\ lock[j] = NoWorker

\* a job is stalled when it is active and its lock is no longer renewed
Stalled(j) ==
    /\ jstate[j] = "active"
    /\ lock[j] # NoWorker
    /\ ~alive[lock[j]]

\* the stalled-jobs check of a running Worker: the job goes back to wait,
\* or fails once it has stalled more than maxStalledCount times
StalledCheck(w, j) ==
    /\ redisUp
    /\ UNCHANGED limVars
    /\ UNCHANGED pageVars
    /\ UNCHANGED connVars
    /\ UNCHANGED fsVars
    /\ UNCHANGED netVars
    /\ UNCHANGED apiVars
    /\ UNCHANGED wireVars
    /\ alive[w]
    /\ Stalled(j)
    /\ IF stalledCount[j] >= MaxStalledCount
       THEN LET gone == Expired("failed", RemoveOnFailAge)
            IN  /\ jstate' = Without([jstate EXCEPT ![j] = "failed"],
                                     gone, "removed")
                /\ failedReason' = Without([failedReason EXCEPT ![j] = ErrStalled],
                                           gone, NoMsg)
                /\ fetchTotal' = [fetchTotal EXCEPT ![j] = 0]
                /\ stalledCount' = Without(stalledCount, gone, 0)
                /\ attemptsMade' = Without(attemptsMade, gone, 0)
                /\ progress' = Without(progress, gone, InitialProgress)
                /\ finishedDays' = Without([finishedDays EXCEPT ![j] = 0], gone, 0)
       ELSE /\ jstate' = [jstate EXCEPT ![j] = "waiting"]
            /\ stalledCount' = [stalledCount EXCEPT ![j] = @ + 1]
            /\ UNCHANGED <<failedReason, fetchTotal, attemptsMade, progress,
                           finishedDays>>
    /\ lock' = [lock EXCEPT ![j] = NoWorker]
    /\ UNCHANGED returnvalue
    /\ UNCHANGED workerVars
    /\ UNCHANGED runVars
    /\ UNCHANGED countFetches

\* --------------------------------------------------------------- removal
\* job.remove() is refused while the job's lock key exists.  The key of a
\* worker that died expires a lock duration later: until the stalled check
\* it may or may not be there.
LockKeyMayExist(j) == lock[j] # NoWorker

\* a removal that does not look at the lock
LockIgnored(j) == TRUE

LockKeyMayBeGone(j) == IF lock[j] = NoWorker THEN TRUE ELSE ~alive[lock[j]]

\* the job's record is deleted from the store
DeleteRecord(j) ==
    /\ jstate' = [jstate EXCEPT ![j] = "removed"]
    /\ attemptsMade' = [attemptsMade EXCEPT ![j] = 0]
    /\ stalledCount' = [stalledCount EXCEPT ![j] = 0]
    /\ progress' = [progress EXCEPT ![j] = InitialProgress]
    /\ returnvalue' = [returnvalue EXCEPT ![j] = NoResult]
    /\ failedReason' = [failedReason EXCEPT ![j] = NoMsg]
    /\ lock' = [lock EXCEPT ![j] = NoWorker]
    /\ fetchTotal' = [fetchTotal EXCEPT ![j] = 0]
    /\ finishedDays' = [finishedDays EXCEPT ![j] = 0]

\* a removal request for job j that answers notFound for a missing record,
\* refused when job.remove() throws, and removed otherwise
Removal(op, j, notFound, refused, removed) ==
    /\ StoreReady
    /\ UNCHANGED limVars
    /\ UNCHANGED pageVars
    /\ UNCHANGED connVars
    /\ UNCHANGED fsVars
    /\ UNCHANGED netVars
    /\ \/ /\ Absent(j)
          /\ reply' = Reply(op, j, notFound)
          /\ UNCHANGED <<storeVars, fetchTotal, finishedDays>>
       \/ /\ ~Absent(j)
          /\ LockKeyMayExist(j)
          /\ reply' = Reply(op, j, refused)
          /\ UNCHANGED <<storeVars, fetchTotal, finishedDays>>
       \/ /\ ~Absent(j)
          /\ LockKeyMayBeGone(j)
          /\ reply' = Reply(op, j, removed)
          /\ DeleteRecord(j)
    /\ UNCHANGED <<rd, countFetches>>
    /\ UNCHANGED workerVars
    /\ UNCHANGED runVars
    /\ UNCHANGED wireVars

\* removeJob of lib/report-queue.ts: false, a rejected promise, or true
removeJob(j) == Removal("removeJob", j, "false", "throws", "true")

\* DELETE /api/jobs/[jobId]/delete: 404, 500 from the catch block, or 200
DELETE(j) == Removal("DELETE", j, "404", "500", "200")

\* ------------------------------------------------------------ behaviours
HandlerStep(j) ==
    \/ LoadPlugin(j)
    \/ BeginFetch(j)
    \/ FetchOk(j)
    \/ \E e \in FetchErrors : FetchThrows(j, e)
    \/ WakeUp(j)
    \/ ProcessData(j)
    \/ LLMConfig(j)
    \/ InitEngine(j)
    \/ LoadSpecs(j)
    \/ Generate(j)
    \/ PrepareOutput(j)
    \/ \E ok \in BOOLEAN : Render(j, ok)
    \/ Complete(j)

Next ==
    \/ \E j \in Jobs : Submit(j)
    \/ \E w \in Workers, j \in Jobs : Claim(w, j)
    \/ \E j \in Jobs : HandlerStep(j)
    \/ \E j \in Jobs : MoveToFinished(j)
    \/ Tick
    \/ \E w \in Workers : Crash(w)
    \/ \E w \in Workers, j \in Jobs : StalledCheck(w, j)

Spec == Init /\ [][Next]_vars

\* CapJobs jobs wait in the queue when the workers start; their data source
\* is down and no worker crashes
CapSet == 1..CapJobs

InitCap ==
    /\ NoDisk
    /\ NoViewer
    /\ InitWith(CapSet)
    /\ limiter = LimiterOff
    /\ countFetches = FALSE
    /\ asyncWrites = FALSE

\* the handler of a job whose data source keeps timing out
FetchPhase(j) ==
    \/ LoadPlugin(j)
    \/ BeginFetch(j)
    \/ FetchThrows(j, <<"connect ", "ETIMEDOUT">>)
    \/ WakeUp(j)

NextCap ==
    \/ \E w \in Workers, j \in CapSet : Claim(w, j)
    \/ \E j \in CapSet : FetchPhase(j)
    \/ \E j \in CapSet : MoveToFinished(j)
    \/ Tick

CapFairness ==
    /\ \A j \in CapSet : WF_vars(FetchPhase(j))
    /\ \A j \in CapSet : WF_vars(MoveToFinished(j))
    /\ WF_vars(Tick)
    /\ \A j \in CapSet : WF_vars(\E w \in Workers : Claim(w, j))

CapSpec == InitCap /\ [][NextCap]_vars /\ CapFairness

\* LimitJobs jobs naming a plugin that is not installed wait in the queue
\* when the workers start; the rate limiter is followed
InitLimit ==
    /\ NoDisk
    /\ NoViewer
    /\ InitWith(AllJobs)
    /\ limiter = LimiterIdle
    /\ countFetches = FALSE
    /\ asyncWrites = FALSE

\* jobs of one priority are taken in the order they were added; the runs
\* followed are those where a handler is over before the next job is taken
ClaimNext(w) ==
    \E j \in AllJobs :
        /\ \A i \in AllJobs : i < j => jstate[i] # "waiting"
        /\ \A i \in AllJobs : jstate[i] # "active"
        /\ Claim(w, j)

\* loadPlugin finds no such plugin
PluginMissing(j) ==
    /\ LoadPlugin(j)
    /\ result'[j] = FailureResult(ErrPluginNotFound)

NextLimit ==
    \/ \E w \in Workers : ClaimNext(w)
    \/ \E j \in AllJobs : PluginMissing(j)
    \/ \E j \in AllJobs : MoveToFinished(j)
    \/ Tick

LimitSpec == InitLimit /\ [][NextLimit]_vars

\* a day goes by: every running timer is up, finished jobs are a day older
DayPasses ==
    /\ UNCHANGED apiVars
    /\ UNCHANGED wireVars
    /\ \E j \in AllJobs : /\ jstate[j] \in {"completed", "failed"}
                          /\ finishedDays[j] < MaxDays
    /\ finishedDays' = [j \in AllJobs |->
                           IF jstate[j] \in {"completed", "failed"}
                              /\ finishedDays[j] < MaxDays
                           THEN finishedDays[j] + 1
                           ELSE finishedDays[j]]
    /\ timer' = [j \in AllJobs |-> 0]
    /\ limiter' = LimiterAfter(DaySeconds * 1000)
    /\ UNCHANGED pageVars
    /\ UNCHANGED connVars
    /\ UNCHANGED fsVars
    /\ UNCHANGED netVars
    /\ probe' = ProbeAfter(DaySeconds * 1000)
    /\ UNCHANGED <<jstate, attemptsMade, stalledCount, progress, returnvalue,
                   failedReason, lock, alive, processing, crashes, hpc,
                   attempt, lastError, delay, fmt, outputs, result,
                   countFetches, fetchTotal>>

\* the two jobs whose records are followed over days
RetainSet == {1, 2}

\* job 1 has failed after stalling twice; job 2 stalled once and waits again
InitRetain ==
    /\ NoDisk
    /\ NoViewer
    /\ InitFrom({}, {2}, {1})
    /\ limiter = LimiterOff
    /\ countFetches = FALSE
    /\ asyncWrites = FALSE

NextRetain ==
    \/ \E w \in Workers, j \in RetainSet : Claim(w, j)
    \/ \E j \in RetainSet : FetchPhase(j)
    \/ \E j \in RetainSet : MoveToFinished(j)
    \/ Tick
    \/ \E w \in Workers : Crash(w)
    \/ \E w \in Workers, j \in RetainSet : StalledCheck(w, j)
    \/ DayPasses
    \/ \E j \in RetainSet : removeJob(j)
    \/ \E j \in RetainSet : DELETE(j)

RetainSpec == InitRetain /\ [][NextRetain]_vars

\* progress writes in flight are followed
InitAsync == InitState /\ countFetches = FALSE /\ asyncWrites = TRUE

NextAsync ==
    \/ Next
    \/ \E j \in Jobs : ApplyWrite(j)

OrderSpec == InitAsync /\ [][NextAsync]_vars

\* history kept: the behaviours of Spec, with fetchTotal counting
InitCounting == InitState /\ countFetches = TRUE /\ asyncWrites = FALSE

CountSpec == InitCounting /\ [][Next]_vars

\* The worker's event loop and the store keep going: a handler whose worker
\* runs takes its next step, a due timer fires, processJob's outcome is
\* settled, a waiting job is taken by some running worker with a free slot,
\* and a running worker's stalled-jobs check comes round.  Submissions and
\* crashes are under no obligation to happen.
Fairness ==
    /\ \A j \in Jobs : WF_vars(HandlerStep(j))
    /\ \A j \in Jobs : WF_vars(MoveToFinished(j))
    /\ WF_vars(Tick)
    /\ \A j \in Jobs : WF_vars(\E w \in Workers : Claim(w, j))
    /\ \A j \in Jobs : WF_vars(\E w \in Workers : StalledCheck(w, j))

LiveSpec == Init /\ [][Next]_vars /\ Fairness

\* ------------------------------------------------------ status projections
\* a JavaScript number as the projections compute it
Num(v) == [kind |-> "number", value |-> v]
NaN == [kind |-> "NaN", value |-> 0]
Infinity == [kind |-> "Infinity", value |-> 0]

\* Math.round((current / total) * 100) for current = cnum/cden >= 0, total >= 0
RoundPercent(p) ==
    IF p.total = 0
    THEN IF p.cnum = 0 THEN NaN ELSE Infinity
    ELSE Num((200 * p.cnum + p.cden * p.total) \div (2 * p.cden * p.total))

\* mapJobStatus of lib/job-queue.ts
mapJobStatus(state) ==
    CASE state \in {"waiting", "delayed"} -> "queued"
      [] state = "active" -> "processing"
      [] state = "completed" -> "completed"
      [] state = "failed" -> "failed"
      [] OTHER -> "queued"

\* getJobStatus of lib/report-queue.ts, for a job that exists
getJobStatus(j) ==
    [state |-> jstate[j],
     progress |-> progress[j],
     hasProgress |-> progress[j].kind = "object",
     result |-> returnvalue[j],
     error |-> failedReason[j]]

\* `progress ? Math.round((progress.current / progress.total) * 100) : 0`
getJobProgress(p) ==
    IF p.kind = "object" THEN RoundPercent(p) ELSE Num(0)

\* JobQueue.getJob of lib/job-queue.ts
getJob(j) ==
    LET st == getJobStatus(j)
    IN  [status |-> mapJobStatus(st.state),
         progress |-> getJobProgress(st.progress),
         error |-> st.error]

\* the progress percentage of GET /api/jobs
listProgress(p) ==
    IF p.kind = "object" /\ p.total > 0 THEN RoundPercent(p) ELSE Num(0)

\* "Map BullMQ state to user-friendly status" of GET /api/jobs
listStatus(state) ==
    CASE state = "active" -> "processing"
      [] state = "completed" -> "completed"
      [] state = "failed" -> "failed"
      [] OTHER -> "queued"

\* one element of the jobs array of GET /api/jobs
listJob(j) ==
    [status |-> listStatus(jstate[j]),
     progress |-> listProgress(progress[j]),
     outputs |-> IF jstate[j] = "completed" /\ returnvalue[j].kind = "result"
                 THEN returnvalue[j].outputs ELSE {},
     error |-> failedReason[j],
     attempts |-> attemptsMade[j]]

\* the progress percentage of GET /api/jobs/[jobId]: `prog.current && prog.total`
singleProgress(p) ==
    IF p.kind = "object" /\ p.cnum # 0 /\ p.total # 0
    THEN RoundPercent(p) ELSE Num(0)

\* the job object of GET /api/jobs/[jobId]
singleJob(j) ==
    [status |-> jstate[j],
     progress |-> singleProgress(progress[j]),
     error |-> failedReason[j],
     attempts |-> attemptsMade[j]]

\* ------------------------------------------------------------ status reads
\* job.getState() for a job whose record may be gone by now
getState(j) == IF Absent(j) THEN "unknown" ELSE jstate[j]

\* the status a read answers with: JobQueue.getJob maps the state it got,
\* GET /api/jobs/[jobId] passes it on
Answer(op, j) ==
    LET state == getState(j)
    IN  IF op = "getJob" THEN mapJobStatus(state) ELSE state

\* first fetch of a status read (getJobStatus: `await getJob(jobId)`; the
\* route: `await queue.getJob(jobId)`): no record, no job
ReadFetch(op, j) ==
    /\ StoreReady
    /\ UNCHANGED limVars
    /\ UNCHANGED pageVars
    /\ UNCHANGED connVars
    /\ UNCHANGED fsVars
    /\ UNCHANGED netVars
    /\ UNCHANGED ageVars
    /\ rd = NoRead
    /\ IF Absent(j)
       THEN /\ reply' = Reply(op, j, "NotFound")
            /\ UNCHANGED rd
       ELSE /\ rd' = [phase |-> "fetched", op |-> op, job |-> j]
            /\ UNCHANGED reply
    /\ UNCHANGED <<storeVars, workerVars, runVars, histVars, wireVars>>

\* second fetch of the read, `await job.getState()`, and the answer
ReadState ==
    /\ StoreReady
    /\ UNCHANGED limVars
    /\ UNCHANGED pageVars
    /\ UNCHANGED connVars
    /\ UNCHANGED fsVars
    /\ UNCHANGED netVars
    /\ UNCHANGED ageVars
    /\ rd.phase = "fetched"
    /\ reply' = Reply(rd.op, rd.job, Answer(rd.op, rd.job))
    /\ rd' = NoRead
    /\ UNCHANGED <<storeVars, workerVars, runVars, histVars, wireVars>>

\* addReportJob(jobData, jobId) with an id the caller chose: queue.add
\* inserts the job unless a record with that id exists, and returns a Job
\* either way
addReportJob(j) ==
    /\ StoreReady
    /\ UNCHANGED limVars
    /\ UNCHANGED pageVars
    /\ UNCHANGED connVars
    /\ UNCHANGED fsVars
    /\ UNCHANGED netVars
    /\ UNCHANGED ageVars
    /\ IF Absent(j)
       THEN jstate' = [jstate EXCEPT ![j] = "waiting"]
       ELSE UNCHANGED jstate
    /\ reply' = Reply("addReportJob", j, "job")
    /\ UNCHANGED <<attemptsMade, stalledCount, progress, returnvalue,
                   failedReason, lock, rd>>
    /\ UNCHANGED <<workerVars, runVars, histVars, wireVars>>

\* the worker together with the callers of the queue's operations
NextApi ==
    \/ Next
    \/ \E j \in Jobs : addReportJob(j)
    \/ \E j \in Jobs : removeJob(j)
    \/ \E j \in Jobs : DELETE(j)
    \/ \E op \in {"getJob", "GET"}, j \in Jobs : ReadFetch(op, j)
    \/ ReadState

ApiSpec == Init /\ [][NextApi]_vars

\* -------------------------------------------------------- report files
\* getAvailableReports of lib/report-queue.ts: one entry for each .html file
\* of a plugin directory that has a .pdf file of the same base name
getAvailableReports ==
    { [pluginId |-> f.path[1], reportBaseName |-> f.path[2]] :
        f \in {g \in fs.files :
                 /\ g.path[3] = "html"
                 /\ \E h \in fs.files :
                       h.path = <<g.path[1], g.path[2], "pdf">>} }

\* the jobs whose reports are followed, and what they may ask for
FileSet == 1..FileJobs
JobDatas == [pluginId : PluginIds, reportName : ReportNames]

InitFile ==
    /\ InitWith(FileSet)
    /\ limiter = LimiterOff
    /\ countFetches = FALSE
    /\ asyncWrites = FALSE
    /\ fs = EmptyDisk
    /\ NoViewer
    /\ jobData \in { [j \in AllJobs |-> IF j \in FileSet THEN d[j]
                                         ELSE DefaultData] :
                       d \in [FileSet -> JobDatas] }

\* the handler of a job for which nothing but a rendering fails
Generation(j) ==
    \/ LoadPlugin(j) /\ hpc'[j] # "returned"
    \/ BeginFetch(j)
    \/ FetchOk(j)
    \/ ProcessData(j) /\ hpc'[j] # "returned"
    \/ LLMConfig(j) /\ hpc'[j] # "returned"
    \/ InitEngine(j)
    \/ LoadSpecs(j) /\ hpc'[j] # "returned"
    \/ Generate(j) /\ hpc'[j] # "returned"
    \/ PrepareOutput(j)
    \/ \E ok \in BOOLEAN : Render(j, ok)
    \/ Complete(j)

NextFile ==
    \/ \E w \in Workers, j \in FileSet : Claim(w, j)
    \/ \E j \in FileSet : Generation(j)
    \/ \E j \in FileSet : MoveToFinished(j)

FileSpec == InitFile /\ [][NextFile]_vars

\* ------------------------------------------------------------ submission
\* The body of a POST /api/reports/generate: a missing field and an empty
\* string are alike to the `!field` tests.
Missing == << >>

\* a name of n letters between a leading and b trailing blanks
Padded(a, n, b) ==
    [i \in 1..(a + n + b) |-> IF i <= a \/ i > a + n THEN " " ELSE "x"]

PostNames ==
    {Missing, <<"x", " ", "x">>, <<" ", " ", " ", " ">>}
        \cup {Padded(a, n, a) : a \in 0..1,
                                n \in {MinName - 1, MinName, MaxName, MaxName + 1}}

\* getPipelineConfig finds the first, not the second
PostPipelines == {"", "pubmed", "nosuch"}
pipelineExists(id) == id = "pubmed"

Bodies == [pipelineId : PostPipelines, reportName : PostNames, query : BOOLEAN]

\* reportName.trim()
trim(name) == trimEnd(trimStart(name))

\* a length test that lets names of two characters through
tooShortByOne(name) == Len(name) < MinName - 1

\* `trimmedReportName.length < 3` and `trimmedReportName.length > 100`
tooShort(name) == Len(name) < MinName
tooLong(name) == Len(name) > MaxName

PostReply(body, code, j) == [op |-> "POST", body |-> body, code |-> code, jobId |-> j]

\* POST /api/reports/generate: the checks in their order, then
\* jobQueue.createJob, which adds one job under a fresh id
POST(body) ==
    /\ StoreReady
    /\ UNCHANGED limVars
    /\ UNCHANGED pageVars
    /\ UNCHANGED connVars
    /\ UNCHANGED netVars
    /\ UNCHANGED ageVars
    /\ IF \/ body.pipelineId = ""
          \/ body.reportName = Missing
          \/ ~body.query
          \/ tooShort(trim(body.reportName))
          \/ tooLong(trim(body.reportName))
       THEN /\ reply' = PostReply(body, 400, 0)
            /\ UNCHANGED <<jstate, jobData>>
       ELSE IF ~pipelineExists(body.pipelineId)
       THEN /\ reply' = PostReply(body, 404, 0)
            /\ UNCHANGED <<jstate, jobData>>
       ELSE \E j \in AllJobs :
               /\ jstate[j] = "none"
               /\ \A i \in AllJobs : i < j => jstate[i] # "none"
               /\ jstate' = [jstate EXCEPT ![j] = "waiting"]
               /\ jobData' = [jobData EXCEPT ![j] =
                                 [pluginId |-> body.pipelineId,
                                  reportName |-> trim(body.reportName)]]
               /\ reply' = PostReply(body, 200, j)
    /\ UNCHANGED <<attemptsMade, stalledCount, progress, returnvalue,
                   failedReason, lock, rd, fs>>
    /\ UNCHANGED <<workerVars, runVars, histVars, wireVars>>

\* the queue may hold PostJobs jobs
PostSet == 1..PostJobs

InitPost ==
    /\ InitWith({})
    /\ limiter = LimiterOff
    /\ NoDisk
    /\ NoViewer
    /\ countFetches = FALSE
    /\ asyncWrites = FALSE

NextPost ==
    \/ \E body \in Bodies : jstate[PostJobs] = "none" /\ POST(body)
    \/ \E w \in Workers, j \in PostSet : Claim(w, j)
    \/ \E j \in PostSet : PluginMissing(j)
    \/ \E j \in PostSet : MoveToFinished(j)

PostSpec == InitPost /\ [][NextPost]_vars

\* ----------------------------------------------------------- status page
PollFrame ==
    UNCHANGED <<storeVars, workerVars, runVars, histVars, wireVars, apiVars,
                limVars, ageVars, netVars, fsVars, connVars>>

\* the job the page was opened for
PageJob == 1

\* pollStatus, the fetch answered 200 with the job: the page shows it and,
\* unless the job is completed or failed, sets the next poll
PollOk ==
    /\ page.scheduled
    /\ ~Absent(PageJob)
    /\ LET status == getJob(PageJob).status
       IN  page' = [page EXCEPT !.shown = status,
                                !.scheduled = status \notin {"completed", "failed"}]
    /\ PollFrame

\* pollStatus, the other ways: the route answers 404 for a missing job
\* or 500 from its catch block (response.ok is false), or fetch or
\* response.json() throws.  No branch of these sets a timer.
PollFails(how) ==
    /\ page.scheduled
    /\ how = "404" => Absent(PageJob)
    /\ page' = [page EXCEPT !.scheduled = FALSE]
    /\ PollFrame

PollFailures == {"404", "500", "throws"}

\* the job is queued and its status page has just been opened
InitPoll ==
    /\ InitWith(Jobs)
    /\ limiter = LimiterOff
    /\ NoDisk
    /\ page = Mounted
    /\ countFetches = FALSE
    /\ asyncWrites = FALSE

NextPoll ==
    \/ \E w \in Workers, j \in Jobs : Claim(w, j)
    \/ \E j \in Jobs : HandlerStep(j)
    \/ \E j \in Jobs : MoveToFinished(j)
    \/ Tick
    \/ \E w \in Workers : Crash(w)
    \/ \E w \in Workers, j \in Jobs : StalledCheck(w, j)
    \/ \E j \in Jobs : removeJob(j)
    \/ PollOk
    \/ \E how \in PollFailures : PollFails(how)

PollSpec == InitPoll /\ [][NextPoll]_vars

\* -------------------------------------------------------------- listing
\* the status words the API reports, and the `status` values it lets through
StatusVocabulary == {"queued", "processing", "completed", "failed"}
validStatuses ==
    {"waiting", "delayed", "active", "completed", "failed", "paused", "repeat"}
allStatuses == <<"waiting", "delayed", "active", "completed", "failed">>

\* the ids of S in the order the queue keeps them
RECURSIVE InOrder(_)
InOrder(S) ==
    IF S = {} THEN << >>
    ELSE LET m == CHOOSE x \in S : \A y \in S : x <= y
         IN  <<m>> \o InOrder(S \ {m})

\* Array.prototype.slice(from, to) for 0 <= from
Slice(q, from, to) == SubSeq(q, from + 1, Min(to, Len(q)))

\* getRanges of queue.getJobs([state], start, end): the ids of the jobs in
\* that state, end = -1 for the last one
getRanges(state, start, end) ==
    LET all == InOrder({j \in AllJobs : jstate[j] = state})
    IN  Slice(all, start, IF end = -1 THEN Len(all) ELSE end + 1)

\* Job.fromId of queue.getJobs: undefined for an id whose record is gone
Undefined == 0
fromId(j) == IF Absent(j) THEN Undefined ELSE j

\* Array.from(new Map(allJobs.map(job => [job.id, job])).values()): one
\* entry for each id, in the order the ids first came
RECURSIVE uniqueJobs(_)
uniqueJobs(q) ==
    IF q = << >> THEN << >>
    ELSE LET front == uniqueJobs(SubSeq(q, 1, Len(q) - 1))
             last == q[Len(q)]
         IN  IF \E i \in DOMAIN front : front[i] = last
             THEN front ELSE Append(front, last)

\* jobs.filter((job) => job !== null && job !== undefined)
Defined(q) == SelectSeq(q, LAMBDA x : x # Undefined)

ListReply(filter, limit, offset, code, jobs, twice, vanished) ==
    [op |-> "list", filter |-> filter, limit |-> limit, offset |-> offset,
     code |-> code, jobs |-> jobs, count |-> Len(jobs),
     twice |-> twice, vanished |-> vanished]

ListFrame ==
    UNCHANGED <<storeVars, workerVars, runVars, histVars, wireVars, limVars,
                ageVars, netVars, fsVars, pageVars, connVars>>

\* GET /api/jobs up to getJobCounts and the test of the filter: a filter
\* outside validStatuses is answered 400, a valid one asks for the page of
\* that state, none ("all") for every job of each state in turn
ListBegin(filter, limit, offset) ==
    /\ StoreReady
    /\ rd = NoRead
    /\ IF filter # "all" /\ filter \notin validStatuses
       THEN /\ reply' = ListReply(filter, limit, offset, 400, << >>, FALSE, FALSE)
            /\ UNCHANGED rd
       ELSE /\ rd' = [phase |-> "range", filter |-> filter, limit |-> limit,
                      offset |-> offset,
                      todo |-> IF filter = "all" THEN allStatuses ELSE <<filter>>,
                      ids |-> << >>, got |-> << >>, out |-> << >>,
                      twice |-> FALSE, vanished |-> FALSE]
            /\ UNCHANGED reply
    /\ ListFrame

\* queue.getJobs, first half: the ids of the state in turn
ListRange ==
    /\ StoreReady
    /\ rd.phase = "range"
    /\ rd' = [rd EXCEPT !.phase = "fromId",
                        !.ids = IF rd.filter = "all"
                                THEN getRanges(Head(rd.todo), 0, -1)
                                ELSE getRanges(Head(rd.todo), rd.offset,
                                               rd.offset + rd.limit - 1)]
    /\ UNCHANGED reply
    /\ ListFrame

\* queue.getJobs, second half: the record of each id.  After the last state
\* the unfiltered listing reads job.id of every element (which throws for an
\* undefined one: the catch block answers 500), makes the ids unique and
\* cuts the page out
ListFromId ==
    /\ StoreReady
    /\ rd.phase = "fromId"
    /\ LET more == [i \in DOMAIN rd.ids |-> fromId(rd.ids[i])]
           got == rd.got \o more
           twice == rd.twice \/ \E i \in DOMAIN rd.got, k \in DOMAIN more :
                                   rd.got[i] = more[k] /\ more[k] # Undefined
           vanished == rd.vanished \/ \E k \in DOMAIN more : more[k] = Undefined
       IN  IF Len(rd.todo) > 1
           THEN /\ rd' = [rd EXCEPT !.phase = "range", !.todo = Tail(@),
                                   !.ids = << >>, !.got = got,
                                   !.twice = twice, !.vanished = vanished]
                /\ UNCHANGED reply
           ELSE IF rd.filter # "all"
           THEN /\ rd' = [rd EXCEPT !.phase = "details", !.todo = << >>,
                                   !.ids = << >>, !.got = Defined(got),
                                   !.twice = twice, !.vanished = vanished]
                /\ UNCHANGED reply
           ELSE IF \E i \in DOMAIN got : got[i] = Undefined
           THEN /\ reply' = ListReply(rd.filter, rd.limit, rd.offset, 500,
                                     << >>, twice, vanished)
                /\ rd' = NoRead
           ELSE /\ rd' = [rd EXCEPT !.phase = "details", !.todo = << >>,
                                   !.ids = << >>,
                                   !.got = Slice(uniqueJobs(got), rd.offset,
                                                 rd.offset + rd.limit),
                                   !.twice = twice, !.vanished = vanished]
                /\ UNCHANGED reply
    /\ ListFrame

\* `await job.getState()` for the next job of the page
ListDetail ==
    /\ StoreReady
    /\ rd.phase = "details"
    /\ Len(rd.out) < Len(rd.got)
    /\ LET j == rd.got[Len(rd.out) + 1]
       IN  rd' = [rd EXCEPT !.out = Append(@, [id |-> j,
                                               status |-> listStatus(getState(j))]),
                            !.vanished = @ \/ Absent(j)]
    /\ UNCHANGED reply
    /\ ListFrame

\* the response, once every job of the page has its state
ListRespond ==
    /\ StoreReady
    /\ rd.phase = "details"
    /\ Len(rd.out) = Len(rd.got)
    /\ reply' = ListReply(rd.filter, rd.limit, rd.offset, 200, rd.out,
                          rd.twice, rd.vanished)
    /\ rd' = NoRead
    /\ ListFrame

\* the jobs that are listed, and what a caller may ask for
ListSet == 1..ListJobs
Filters == {"all", "queued", "processing", "completed", "active"}

InitList ==
    /\ NoDisk
    /\ NoViewer
    /\ InitWith(ListSet)
    /\ limiter = LimiterOff
    /\ countFetches = FALSE
    /\ asyncWrites = FALSE

NextList ==
    \/ \E w \in Workers, j \in ListSet : Claim(w, j)
    \/ \E j \in ListSet : PluginMissing(j)
    \/ \E j \in ListSet : MoveToFinished(j)
    \/ \E j \in ListSet : removeJob(j)
    \/ \E f \in Filters, limit \in 1..MaxLimit, offset \in 0..MaxOffset :
          ListBegin(f, limit, offset)
    \/ ListRange
    \/ ListFromId
    \/ ListDetail
    \/ ListRespond

ListSpec == InitList /\ [][NextList]_vars

\* ------------------------------------------- progress records of any shape
\* processJob's onProgress callback, handed a progress record of any current
\* and total: job.updateProgress(progress)
onProgress(j, c, t) ==
    /\ UNCHANGED limVars
    /\ UNCHANGED pageVars
    /\ UNCHANGED connVars
    /\ UNCHANGED fsVars
    /\ UNCHANGED netVars
    /\ UNCHANGED ageVars
    /\ UNCHANGED apiVars
    /\ UNCHANGED wireVars
    /\ jstate[j] = "active"
    /\ \E w \in Workers : Runs(w, j)
    /\ progress' = [progress EXCEPT ![j] = ProgressObj(c, 1, t)]
    /\ UNCHANGED <<jstate, attemptsMade, stalledCount, returnvalue,
                   failedReason, lock>>
    /\ UNCHANGED workerVars
    /\ UNCHANGED runVars
    /\ UNCHANGED histVars

NextP ==
    \/ \E j \in Jobs : Submit(j)
    \/ \E w \in Workers, j \in Jobs : Claim(w, j)
    \/ \E j \in Jobs, t \in 0..MaxTotal : \E c \in 0..t : onProgress(j, c, t)

\* a claimed job whose handler reports progress records 0 <= current <= total
ProgressSpec == Init /\ [][NextP]_vars

\* ------------------------------------------------------- Redis outage
\* The client of lib/redis.ts has maxRetriesPerRequest null, a retryStrategy
\* that always answers a delay, and the offline queue ioredis has by default:
\* it reconnects for ever, and a command given to it meanwhile waits.
RedisDown ==
    /\ redisUp
    /\ redisUp' = FALSE
    /\ UNCHANGED held
    /\ UNCHANGED <<storeVars, workerVars, runVars, histVars, wireVars, apiVars,
                   limVars, ageVars, fsVars, pageVars,
                   connVars>>

RedisBack ==
    /\ ~redisUp
    /\ redisUp' = TRUE
    /\ UNCHANGED held
    /\ UNCHANGED <<storeVars, workerVars, runVars, histVars, wireVars, apiVars,
                   limVars, ageVars, fsVars, pageVars,
                   connVars>>

\* the operations a caller may start
HeldOps == {"createJob", "getJob", "getJobs", "removeJob"}

\* an API operation is called while the server cannot be reached: its first
\* command waits in the offline queue and its promise stays unsettled
Hold(op, j) ==
    /\ ~redisUp
    /\ held = NoCall
    /\ held' = [op |-> op, job |-> j]
    /\ UNCHANGED redisUp
    /\ UNCHANGED <<storeVars, workerVars, runVars, histVars, wireVars, apiVars,
                   limVars, ageVars, fsVars, pageVars,
                   connVars>>

\* the server is back and the waiting command is sent: from here the call
\* runs like one made now
Resume ==
    /\ redisUp
    /\ held # NoCall
    /\ held' = NoCall
    /\ UNCHANGED redisUp
    /\ UNCHANGED <<storeVars, workerVars, runVars, histVars, wireVars, apiVars,
                   limVars, ageVars, fsVars, pageVars,
                   connVars>>

InitOutage == InitState /\ countFetches = FALSE /\ asyncWrites = TRUE

NextOutage ==
    \/ NextAsync
    \/ RedisDown
    \/ RedisBack
    \/ \E op \in HeldOps, j \in Jobs : Hold(op, j)
    \/ Resume
    \/ \E j \in Jobs : removeJob(j)
    \/ \E j \in Jobs : ReadFetch("getJob", j)
    \/ ReadState

OutageSpec == InitOutage /\ [][NextOutage]_vars

\* ------------------------------------------------------ cached connections
ConnFrame ==
    UNCHANGED <<storeVars, workerVars, runVars, histVars, wireVars, apiVars,
                limVars, ageVars, netVars, fsVars, pageVars>>

\* the cache of lib/redis.ts after getRedisClient(): the client kept, or a
\* new Redis made and kept
WithClient(c) ==
    IF c.redisClient # 0 THEN c
    ELSE [c EXCEPT !.redisClient = c.clients + 1, !.clients = c.clients + 1]

\* getRedisClient()
getRedisClient ==
    /\ conn.redisClient # 0 \/ conn.clients < MaxClients
    /\ LET c == WithClient(conn)
       IN  conn' = [c EXCEPT !.ret = [NoReturn EXCEPT !.call = "getRedisClient",
                                                       !.client = c.redisClient]]
    /\ ConnFrame

\* getReportQueue(): the cached queue if there is one, else a new Queue on
\* getRedisClient()
getReportQueue ==
    /\ \/ conn.reportQueue # NoInstance
       \/ /\ conn.queues < MaxInstances
          /\ conn.redisClient # 0 \/ conn.clients < MaxClients
    /\ LET c == IF conn.reportQueue # NoInstance THEN conn ELSE WithClient(conn)
           q == IF conn.reportQueue # NoInstance THEN conn.reportQueue
                ELSE [id |-> conn.queues + 1, client |-> c.redisClient]
       IN  conn' = [c EXCEPT !.reportQueue = q,
                             !.queues = IF conn.reportQueue # NoInstance
                                        THEN @ ELSE @ + 1,
                             !.sinceQueue = q.id,
                             !.ret = [call |-> "getReportQueue",
                                      client |-> 0,
                                      instance |-> q,
                                      since |-> conn.sinceQueue]]
    /\ ConnFrame

\* getQueueEvents(): the same for the QueueEvents listener
getQueueEvents ==
    /\ \/ conn.queueEvents # NoInstance
       \/ /\ conn.events < MaxInstances
          /\ conn.redisClient # 0 \/ conn.clients < MaxClients
    /\ LET c == IF conn.queueEvents # NoInstance THEN conn ELSE WithClient(conn)
           e == IF conn.queueEvents # NoInstance THEN conn.queueEvents
                ELSE [id |-> conn.events + 1, client |-> c.redisClient]
       IN  conn' = [c EXCEPT !.queueEvents = e,
                             !.events = IF conn.queueEvents # NoInstance
                                        THEN @ ELSE @ + 1,
                             !.sinceEvents = e.id,
                             !.ret = [call |-> "getQueueEvents",
                                      client |-> 0,
                                      instance |-> e,
                                      since |-> conn.sinceEvents]]
    /\ ConnFrame

\* closeQueue() up to its first await: queueEvents.close() if there is a
\* listener, else reportQueue.close() if there is a queue, else it returns
closeQueue ==
    /\ conn.closing = "idle"
    /\ conn' =
         [conn EXCEPT
            !.closing = IF conn.queueEvents # NoInstance THEN "events"
                        ELSE IF conn.reportQueue # NoInstance THEN "queue"
                        ELSE "idle",
            !.closedEvents = IF conn.queueEvents # NoInstance
                             THEN @ \cup {conn.queueEvents.id} ELSE @,
            !.closedQueues = IF conn.queueEvents = NoInstance
                                /\ conn.reportQueue # NoInstance
                             THEN @ \cup {conn.reportQueue.id} ELSE @,
            !.ret = NoReturn]
    /\ ConnFrame

\* closeQueue() after `await queueEvents.close()`: `queueEvents = null`, then
\* reportQueue.close() if there is a queue
closeQueueEvents ==
    /\ conn.closing = "events"
    /\ conn' =
         [conn EXCEPT
            !.queueEvents = NoInstance,
            !.sinceEvents = 0,
            !.closing = IF conn.reportQueue # NoInstance THEN "queue" ELSE "idle",
            !.closedQueues = IF conn.reportQueue # NoInstance
                             THEN @ \cup {conn.reportQueue.id} ELSE @,
            !.ret = NoReturn]
    /\ ConnFrame

\* closeQueue() after `await reportQueue.close()`: `reportQueue = null`
closeQueueQueue ==
    /\ conn.closing = "queue"
    /\ conn' = [conn EXCEPT !.reportQueue = NoInstance,
                            !.sinceQueue = 0,
                            !.closing = "idle",
                            !.ret = NoReturn]
    /\ ConnFrame

\* closeRedisConnection() up to its await: redisClient.quit() if there is a
\* client (also the last call of the worker's shutdown)
closeRedisConnection ==
    /\ ~conn.quitting
    /\ conn' = [conn EXCEPT
                  !.quitting = conn.redisClient # 0,
                  !.quit = IF conn.redisClient # 0
                           THEN @ \cup {conn.redisClient} ELSE @,
                  !.sinceQueue = 0,
                  !.sinceEvents = 0,
                  !.ret = NoReturn]
    /\ ConnFrame

\* closeRedisConnection() after `await redisClient.quit()`: `redisClient = null`
closeRedisDone ==
    /\ conn.quitting
    /\ conn' = [conn EXCEPT !.redisClient = 0,
                            !.quitting = FALSE,
                            !.ret = NoReturn]
    /\ ConnFrame

NextConn ==
    \/ getRedisClient
    \/ getReportQueue
    \/ getQueueEvents
    \/ closeQueue
    \/ closeQueueEvents
    \/ closeQueueQueue
    \/ closeRedisConnection
    \/ closeRedisDone

ConnSpec == Init /\ [][NextConn]_vars

\* ================================================================ claims
\* the errors generateReport raises outside retryWithBackoff
FatalErrors ==
    {ErrPluginNotFound, ErrInterface, ErrApiKey, ErrNoSpecs, ErrEmptyContent}

\* C1 (fatal short-circuit): when a handler run that failed with a
\* non-retryable error is settled, the job goes from active to failed, with
\* attempts = 1 and the error message recorded on the job.
C1FatalShortCircuit ==
    [][\A j \in Jobs :
          ( /\ hpc[j] = "returned"
            /\ result[j].kind = "result"
            /\ ~result[j].success
            /\ result[j].error \in FatalErrors
            /\ jstate'[j] # jstate[j] )
          => /\ jstate'[j] = "failed"
             /\ attemptsMade'[j] = 1
             /\ failedReason'[j] = result[j].error]_vars

\* C2 (at-least-once with bounded retries): when a job is settled, its
\* attempts count in the listing view is the number of times its work was
\* invoked; it is completed if the last invocation succeeded, and failed if
\* every invocation failed with a retryable error.
C2AttemptsCountInvocations ==
    [][\A j \in Jobs :
          ( /\ hpc[j] = "returned"
            /\ result[j].kind = "result"
            /\ fetchTotal[j] > 0
            /\ jstate'[j] # jstate[j] )
          => /\ listJob(j)'.attempts = fetchTotal[j]
             /\ result[j].success => listJob(j)'.status = "completed"
             /\ (\E e \in FetchErrors :
                    /\ IsNetworkError(e)
                    /\ result[j].error = DataFetchingFailed(e))
                => listJob(j)'.status = "failed"]_vars

\* C3 (queued during backoff): while a job waits out the backoff delay after
\* a retryable failure, the status view reports it queued and no worker
\* holds it.
C3QueuedDuringBackoff ==
    \A j \in Jobs :
        hpc[j] = "sleep" =>
            /\ getJob(j).status = "queued"
            /\ \A w \in Workers : j \notin processing[w]

\* C4 (backoff delay), as stated: the wait is
\* min(initialDelay * 2^attempts, maxDelay) with attempts the number of
\* failed attempts so far.
C4DelayByFailedAttempts ==
    \A j \in Jobs :
        hpc[j] = "sleep" =>
            LET failedSoFar == attempt[j] + 1
            IN  delay[j] = Min(InitialDelay * Pow2(failedSoFar), MaxDelay)

\* C4 (backoff delay), amended: the wait after the n-th failed attempt is
\* min(initialDelay * 2^(n-1), maxDelay): 2000, 4000, 8000 ms for the three
\* retries, never above maxDelay, and the running timer never exceeds it.
C4BackoffDelay ==
    \A j \in Jobs :
        hpc[j] = "sleep" =>
            LET failedSoFar == attempt[j] + 1
            IN  /\ failedSoFar \in 1..MaxRetries
                /\ delay[j] = <<2000, 4000, 8000>>[failedSoFar]
                /\ delay[j] = Min(InitialDelay * Pow2(failedSoFar - 1), MaxDelay)
                /\ delay[j] <= MaxDelay
                /\ timer[j] <= delay[j]

\* the third retry is waited for, 8000 ms
C4Witness ==
    \E j \in Jobs : hpc[j] = "sleep" /\ attempt[j] = 2 /\ delay[j] = 8000

\* C5 (retry ceiling): the retried operation is invoked at most
\* 1 + maxRetries = 4 times for one job.
C5FetchCeiling ==
    \A j \in Jobs : fetchTotal[j] <= MaxRetries + 1

\* C6 (classification), as stated: an error is retried only if it is a
\* connection timeout, a connection reset, a DNS failure or a rate-limit
\* signal.
C6FourConditions ==
    \A j \in Jobs :
        hpc[j] = "sleep" =>
            \E s \in {"ETIMEDOUT", "ECONNRESET", "ENOTFOUND", "rate limit"} :
                Includes(lastError[j], s)

\* C6 (classification), amended: a failed invocation of the fetch is followed
\* by a backoff wait if and only if its message contains one of ETIMEDOUT,
\* ECONNRESET, ENOTFOUND, "Network error", "rate limit" and fewer than
\* maxRetries retries were made; otherwise it ends the handler run at once,
\* with no timer started and the message kept inside the reported error.
C6Classify ==
    [][\A j \in Jobs :
          LET transient(msg) ==
                  \E s \in {"ETIMEDOUT", "ECONNRESET", "ENOTFOUND",
                            "Network error", "rate limit"} : Includes(msg, s)
          IN  /\ (hpc[j] = "fetch" /\ hpc'[j] = "sleep")
                 => /\ transient(lastError'[j])
                    /\ attempt[j] < MaxRetries
                    /\ timer'[j] > 0
              /\ (hpc[j] = "fetch" /\ hpc'[j] = "returned")
                 => /\ timer'[j] = 0
                    /\ \E e \in FetchErrors :
                          /\ ~transient(e) \/ attempt[j] = MaxRetries
                          /\ result'[j] = FailureResult(DataFetchingFailed(e))]_vars

\* a "Network error" is being retried
C6Witness ==
    \E j \in Jobs :
        /\ hpc[j] = "sleep"
        /\ Includes(lastError[j], "Network error")
        /\ ~Includes(lastError[j], "rate limit")

Orphaned(j) == jstate[j] = "active" /\ \A w \in Workers : ~Runs(w, j)

\* C8 (stalled reclamation): an active job whose worker crashed does not stay
\* active: it is put back to wait (or failed, once stalled too often), and it
\* eventually is completed or failed.
C8StalledReclamation ==
    \A j \in Jobs :
        /\ Orphaned(j) ~> (jstate[j] \in {"waiting", "failed"})
        /\ Orphaned(j) ~> (jstate[j] \in {"completed", "failed"})

\* a job recovered from a stall was run again and completed
C8Witness ==
    \E j \in Jobs : jstate[j] = "completed" /\ stalledCount[j] = 1

\* C9 (result / error exclusion): in the status view a result is present only
\* on a completed job and is a success, an error is present only on a failed
\* job, and never both.
C9ResultErrorExclusive ==
    \A j \in Jobs :
        LET st == getJobStatus(j)
        IN  /\ st.result.kind = "result" =>
                  st.state = "completed" /\ st.result.success
            /\ st.error # NoMsg => st.state = "failed"
            /\ ~(st.result.kind = "result" /\ st.error # NoMsg)

C11ProgressWithinAttempt ==
    [][\A j \in Jobs :
          progress'[j] # progress[j] =>
              LET p == progress[j]
                  q == progress'[j]
              IN  /\ q.kind = "object"
                  /\ q.total = 10
                  /\ q.cnum <= q.cden * q.total
                  /\ hpc[j] # "start" =>
                        /\ p.kind = "object"
                        /\ p.total = q.total
                        /\ p.cnum * q.cden <= q.cnum * p.cden
                  /\ q.cnum = q.cden * q.total =>
                        /\ hpc'[j] = "returned"
                        /\ result'[j].success]_vars

\* a run that went through every update: the last rendering update
\* (current = 9) was followed by current = 10 and the job is completed
C11Witness ==
    \E j \in Jobs :
        /\ jstate[j] = "completed"
        /\ returnvalue[j].success
        /\ progress[j] = ProgressObj(10, 1, 10)

C13IdempotentRemoval ==
    [][\A j \in Jobs :
          ( /\ jstate[j] = "removed"
            /\ reply' # reply
            /\ reply'.op \in {"removeJob", "DELETE"}
            /\ reply'.job = j )
          => /\ reply'.code \notin {"throws", "404", "500"}
             /\ jstate'[j] = "removed"]_vars

C15ReadsSeeActualState ==
    [][(rd # NoRead /\ rd' = NoRead) =>
          reply' = Reply(rd.op, rd.job,
                         IF Absent(rd.job) THEN "NotFound"
                         ELSE IF rd.op = "getJob"
                              THEN mapJobStatus(jstate[rd.job])
                              ELSE jstate[rd.job])]_vars

\* C16 (duplicate id): a submission under an id whose record exists is
\* answered with DuplicateId and leaves the existing job as it is.
C16DuplicateIdRejected ==
    [][\A j \in Jobs :
          ( /\ ~Absent(j)
            /\ reply' # reply
            /\ reply'.op = "addReportJob"
            /\ reply'.job = j )
          => /\ reply'.code = "DuplicateId"
             /\ <<jstate[j], progress[j], returnvalue[j], attemptsMade[j]>>'
                  = <<jstate[j], progress[j], returnvalue[j], attemptsMade[j]>>]_vars

\* C17 (concurrency cap): a worker process never runs more than
\* WORKER_CONCURRENCY handlers at once, a handler in its backoff sleep being
\* one of them; and a waiting job is taken when a running worker has a free
\* slot.
C17ConcurrencyCap ==
    /\ [](\A w \in Workers :
            /\ Cardinality(processing[w]) <= Concurrency
            /\ Cardinality({j \in AllJobs : Runs(w, j) /\ hpc[j] # "idle"})
                   <= Concurrency)
    /\ [](\A j \in AllJobs :
            (jstate[j] = "active" /\ hpc[j] = "sleep") =>
                \E w \in Workers : j \in processing[w])
    /\ \A j \in CapSet :
          ( /\ jstate[j] = "waiting"
            /\ \E w \in Workers : alive[w] /\ HasFreeSlot(w) )
          ~> (jstate[j] # "waiting")

\* a worker runs two handlers, one of them asleep in its backoff delay, while
\* a third job waits
C17Witness ==
    \E w \in Workers, j, k, l \in CapSet :
        /\ processing[w] = {j, k}
        /\ j # k
        /\ hpc[j] = "sleep"
        /\ jstate[l] = "waiting"

\* C18 (rate limit): in any window of LimiterDuration milliseconds, here the
\* one that opens with some claim, at most LimiterMax jobs are claimed by all
\* workers together.
C18AtMostMaxPerWindow ==
    probe.phase = "on" => probe.count <= LimiterMax

\* C19 (failed jobs are kept): the record of a failed job, with its error
\* message and attempt count, goes away only in a step where a removal of
\* that job answers that it was removed.
C19FailedKeptUntilRemoved ==
    [][\A j \in RetainSet :
          jstate[j] = "failed" =>
              \/ /\ jstate'[j] = "failed"
                 /\ failedReason'[j] = failedReason[j]
                 /\ attemptsMade'[j] = attemptsMade[j]
              \/ IF reply'.op = "none" THEN FALSE
                 ELSE /\ reply'.job = j
                      /\ reply'.code \in {"true", "200"}
                      /\ jstate'[j] = "removed"]_vars

\* C20 (store outage): an operation called while Redis is unreachable is
\* answered with an error instead of waiting for the store: when the store
\* comes back, no call is still waiting for it.
C20OperationsFailFast ==
    [][(~redisUp /\ redisUp') => held = NoCall]_vars

\* C21 (status filter): a listing asked for with a filter of the reported
\* vocabulary (queued, processing, completed, failed) is answered 200 and
\* holds only jobs whose reported status is the filter.
C21VocabularyFilterAccepted ==
    (reply.op = "list" /\ reply.filter \in StatusVocabulary) =>
        /\ reply.code = 200
        /\ \A i \in DOMAIN reply.jobs : reply.jobs[i].status = reply.filter

\* C25 (listing page): a listing that is answered 200 holds at most limit
\* jobs, no id twice, and a count equal to the number of its jobs; and a
\* listing is never answered with a failure, whatever happens to the jobs
\* while it runs.
C25ListingPage ==
    reply.op = "list" =>
        /\ reply.code \in {200, 400}
        /\ reply.code = 400 => reply.filter \notin validStatuses
        /\ Len(reply.jobs) <= reply.limit
        /\ \A i, k \in DOMAIN reply.jobs :
              reply.jobs[i].id = reply.jobs[k].id => i = k
        /\ reply.count = Len(reply.jobs)

\* the error a failure message reports: what the fetch/process catch block
\* wrapped, or the message itself
Cause(msg) ==
    IF msg # << >> /\ Head(msg) = "Data fetching failed: "
    THEN SubSeq(msg, 2, Len(msg) - 3)
    ELSE msg

\* C22 (network errors are retried): at whatever stage a handler run ends in
\* a failure caused by a network error, it ends so only after the retries
\* with backoff were used up.
C22NetworkErrorsRetried ==
    [][\A j \in Jobs :
          ( /\ hpc[j] # "returned"
            /\ hpc'[j] = "returned"
            /\ ~result'[j].success
            /\ IsNetworkError(Cause(result'[j].error)) )
          => attempt[j] = MaxRetries /\ hpc[j] = "fetch"]_vars

\* a job that finished with success = true
Succeeded(j) ==
    /\ jstate[j] = "completed"
    /\ returnvalue[j].kind = "result"
    /\ returnvalue[j].success

\* C23 (all completed reports are listed): every job that finished with
\* success = true has its report among getAvailableReports, and the
\* successful jobs of one plugin have as many entries as they are.
C23AllCompletedReportsListed ==
    /\ \A j \in FileSet :
          Succeeded(j) =>
              [pluginId |-> jobData[j].pluginId,
               reportBaseName |-> sanitizeFilename(jobData[j].reportName)]
                  \in getAvailableReports
    /\ \A p \in PluginIds :
          Cardinality({r \in getAvailableReports : r.pluginId = p})
              >= Cardinality({j \in FileSet :
                                 Succeeded(j) /\ jobData[j].pluginId = p})

\* C30 (no shared output file): the output paths recorded in the results of
\* two distinct successfully completed jobs are pairwise distinct, and each
\* still holds what its job wrote.
C30OutputPathsDistinct ==
    \A j, k \in FileSet :
        (Succeeded(j) /\ Succeeded(k) /\ j # k) =>
            \A f \in returnvalue[j].outputs :
                /\ \A g \in returnvalue[k].outputs :
                      filepath(j, f) # filepath(k, g)
                /\ [path |-> filepath(j, f), by |-> j] \in fs.files

\* the request names a pipeline that exists, has a query, and a report name
\* of MinName to MaxName characters once trimmed
Acceptable(body) ==
    /\ body.pipelineId # ""
    /\ body.reportName # Missing
    /\ body.query
    /\ Len(trim(body.reportName)) >= MinName
    /\ Len(trim(body.reportName)) <= MaxName
    /\ pipelineExists(body.pipelineId)

C26KeepsPolling ==
    (page.open /\ page.shown \notin {"completed", "failed"}) => page.scheduled

\* the message has at least one character
NonEmpty(msg) == \E i \in DOMAIN msg : msg[i] # ""

\* a handler run of job j is settled in this step
Settled(j) == hpc[j] = "returned" /\ hpc'[j] = "idle" /\ jstate'[j] # "active"

C28ProjectionsAgree ==
    \A j \in Jobs :
        ~Absent(j) =>
            /\ listJob(j).status = getJob(j).status
            /\ singleJob(j).status = getJob(j).status
            /\ singleJob(j).status \in StatusVocabulary
            /\ listJob(j).progress = getJob(j).progress
            /\ singleJob(j).progress = getJob(j).progress

\* C29 (cached instances follow the client): whatever was called before, the
\* queue returned by getReportQueue, and the listener returned by
\* getQueueEvents, is open and bound to the Redis client that is currently
\* open, not to one that was quit; and a call returns the instance the
\* previous call returned unless a close came between them.
C29CachedOnOpenClient ==
    conn.ret.call \in {"getReportQueue", "getQueueEvents"} =>
        /\ conn.ret.instance.client = conn.redisClient
        /\ conn.ret.instance.client \notin conn.quit
        /\ conn.ret.call = "getReportQueue" =>
              conn.ret.instance.id \notin conn.closedQueues
        /\ conn.ret.call = "getQueueEvents" =>
              conn.ret.instance.id \notin conn.closedEvents
        /\ conn.ret.since # 0 => conn.ret.instance.id = conn.ret.since

====
